---- MODULE Spec2Model ----
(***************************************************************************)
(* Model of the SillyTavern Emma server plugin: the POST /create           *)
(* scaffolding pipeline and the POST /open editor launcher.                *)
(*                                                                         *)
(* Strings that the code inspects character by character (name,            *)
(* githubUsername, extensionName, file names, README text) are sequences   *)
(* of one-character strings.  Strings that are only copied (display_name,  *)
(* author, email, editor) are TLA+ strings; "" is the falsy value of a     *)
(* missing or empty field.                                                 *)
(*                                                                         *)
(* Node runs each handler on one thread: the code between two awaits is    *)
(* one atomic action, every awaited operation is an action of its own.     *)
(*                                                                         *)
(* The handlers modelled are the privilege-gated, git-backed ones          *)
(* (routeExtensionOpen, routeExtensionCreate); the repository's older      *)
(* handlers lack the admin check, the username validation and the          *)
(* templates.  The disk starts with the extensions root missing or with    *)
(* the root and one directory without index.js.  An awaited operation may  *)
(* fail, at most MaxFaults times in a run; mkdirSync also fails when the   *)
(* parent of its path is missing.  Spec is the plugin, SpecSanitizer and   *)
(* SpecReadme apply the name sanitizer and the README substitution alone,  *)
(* SpecReturning is Spec with every awaited operation of a /create         *)
(* returning, so that its handler is resumed.                              *)
(***************************************************************************)
EXTENDS Integers, Sequences, FiniteSets, TLC

VARIABLES
    fs,          \* directory key (leaf; <<>> is the extensions root) -> file name -> content
    git,         \* directory key -> repository state, for directories holding a repository
    pc,          \* request -> position of its handler
    req,         \* request -> request (caller and body)
    status,      \* request -> HTTP status sent (0: none yet)
    body,        \* request -> response body
    launched,    \* requests whose handler has spawned the editor process
    mkdirLog,    \* directory keys created by mkdirSync
    faults,      \* I/O and tool failures so far
    template,    \* README template under test (pure-function specifications)
    fnIn,        \* input of the pure function under test
    fnOut,       \* its output
    fnDone       \* whether it has been applied

vars == <<fs, git, pc, req, status, body, launched, mkdirLog, faults,
          template, fnIn, fnOut, fnDone>>

progVars == <<fs, git, pc, req, status, body, launched, mkdirLog, faults>>
fnVars == <<template, fnIn, fnOut, fnDone>>

-----------------------------------------------------------------------------
(* Bounds *)

MaxReq == 2
MaxFaults == 1
MaxNameLen == 3

Reqs == 1..MaxReq

-----------------------------------------------------------------------------
(* Characters and strings *)

Lower == {"a","b","c","d","e","f","g","h","i","j","k","l","m",
          "n","o","p","q","r","s","t","u","v","w","x","y","z"}
Upper == {"A","B","C","D","E","F","G","H","I","J","K","L","M",
          "N","O","P","Q","R","S","T","U","V","W","X","Y","Z"}
Digit == {"0","1","2","3","4","5","6","7","8","9"}

RECURSIVE Rep(_, _)
Rep(c, n) == IF n = 0 THEN <<>> ELSE <<c>> \o Rep(c, n - 1)

Drop(s, n) == SubSeq(s, n + 1, Len(s))

StartsWithAt(s, i, pat) ==
    /\ i + Len(pat) - 1 <= Len(s)
    /\ SubSeq(s, i, i + Len(pat) - 1) = pat

-----------------------------------------------------------------------------
(* Program constants *)

GITHUB_USERNAME_MAX_LENGTH == 39
GITHUB_REPO_MAX_LENGTH == 100

ALLOWED_EDITORS == {"code", "webstorm", "atom", "sublime", "notepad++"}

Undefined == "<undefined>"

ROOT == <<>>

fIndexJs == <<"i","n","d","e","x",".","j","s">>
fLicense == <<"L","I","C","E","N","S","E">>
fReadme == <<"R","E","A","D","M","E",".","m","d">>
fManifest == <<"m","a","n","i","f","e","s","t",".","j","s","o","n">>
dDotGit == <<".","g","i","t">>

UsernameToken == <<"u","s","e","r","n","a","m","e">>
ExtensionNameToken == <<"E","x","t","e","n","s","i","o","n","N","a","m","e">>
YourUsername == <<"y","o","u","r","-">> \o UsernameToken
GithubUrl == <<"h","t","t","p","s",":","/","/","g","i","t","h","u","b",".","c","o","m","/">>

-----------------------------------------------------------------------------
(* Validation and sanitizing *)

\* \w of a JavaScript regular expression without the u flag
WordChar(c) == c \in Lower \cup Upper \cup Digit \cup {"_"}

\* /^[\w.-]+$/.test(s)
GITHUB_NAME_REGEX(s) ==
    /\ Len(s) > 0
    /\ \A i \in 1..Len(s) : WordChar(s[i]) \/ s[i] = "." \/ s[i] = "-"

\* the class with the underscore forgotten: [^a-zA-Z0-9-]
StrippedChar_noUnderscore(c) == ~(c \in Lower \/ c \in Upper \/ c \in Digit \/ c = "-")

\* the class [^a-zA-Z0-9-_]
StrippedChar(c) == ~(c \in Lower \/ c \in Upper \/ c \in Digit \/ c = "-" \/ c = "_")

\* name.replace(/[^a-zA-Z0-9-_]/g, '')
RECURSIVE SanitizeName(_)
SanitizeName(name) ==
    IF name = <<>> THEN <<>>
    ELSE (IF StrippedChar(Head(name)) THEN <<>> ELSE <<Head(name)>>)
         \o SanitizeName(Tail(name))

\* the path built from the raw name, the replace() forgotten
ExtensionPath_raw(name) == name

\* path.join(PUBLIC_DIRECTORIES.globalExtensions, leaf): an empty leaf joins to the root itself
ExtensionPath(name) == SanitizeName(name)

\* the length test off by one
UsernameTooLong_offByOne(u) == Len(u) > GITHUB_USERNAME_MAX_LENGTH + 1

UsernameTooLong(u) == Len(u) > GITHUB_USERNAME_MAX_LENGTH
RepoNameTooLong(n) == Len(n) > GITHUB_REPO_MAX_LENGTH

IsAdmin(b) == b.admin

RequiredFieldsPresent(b) == b.name # <<>> /\ b.display_name # "" /\ b.author # ""

GithubCoordinatesValid(b) ==
    b.githubUsername # <<>> =>
        /\ GITHUB_NAME_REGEX(b.githubUsername)
        /\ ~UsernameTooLong(b.githubUsername)
        /\ GITHUB_NAME_REGEX(b.name)
        /\ ~RepoNameTooLong(b.name)

-----------------------------------------------------------------------------
(* Filesystem *)

\* an existence test that sees the files lying in the root but no directory
PathExists_filesOnly(f, leaf) == ROOT \in DOMAIN f /\ leaf \in DOMAIN f[ROOT]

\* fs.existsSync(path.join(root, leaf)): a directory, or a file lying in the root
PathExists(f, leaf) ==
    \/ leaf \in DOMAIN f
    \/ ROOT \in DOMAIN f /\ leaf \in DOMAIN f[ROOT]

\* fs.mkdirSync(path) without recursive: the parent must exist, the path must not
MkdirPossible(f, leaf) ==
    /\ ~PathExists(f, leaf)
    /\ leaf # ROOT => ROOT \in DOMAIN f

NoFiles == [n \in {} |-> 0]

Mkdir(f, leaf) == [d \in DOMAIN f \cup {leaf} |-> IF d = leaf THEN NoFiles ELSE f[d]]

WriteFile(f, d, n, content) ==
    [f EXCEPT ![d] = [m \in DOMAIN f[d] \cup {n} |-> IF m = n THEN content ELSE f[d][m]]]

\* readdirSync(root).filter(f => statSync(join(root, f)).isDirectory())
GlobalExtensions(f, g) ==
    {d \in DOMAIN f : d # ROOT} \cup (IF ROOT \in DOMAIN g THEN {dDotGit} ELSE {})

\* only the directory tested, not the file in it
IndexJsExists_directoryOnly(f, ext) == ext \in DOMAIN f

\* fs.existsSync(path.join(root, extensionName, 'index.js'))
IndexJsExists(f, ext) == ext \in DOMAIN f /\ fIndexJs \in DOMAIN f[ext]

-----------------------------------------------------------------------------
(* README substitution: String.prototype.replace with a global pattern *)

\* the replacement string of replace(): $$, $&, $` and $' are patterns; the
\* regular expressions here have no groups, so $1 and $<n> stay literal
RECURSIVE ExpandReplacement(_, _, _, _)
ExpandReplacement(rep, matched, before, after) ==
    IF rep = <<>> THEN <<>>
    ELSE IF Head(rep) = "$" /\ Len(rep) >= 2 /\ rep[2] \in {"$", "&", "`", "'"}
         THEN (CASE rep[2] = "$" -> <<"$">>
                 [] rep[2] = "&" -> matched
                 [] rep[2] = "`" -> before
                 [] rep[2] = "'" -> after)
              \o ExpandReplacement(Drop(rep, 2), matched, before, after)
         ELSE <<Head(rep)>> \o ExpandReplacement(Tail(rep), matched, before, after)

RECURSIVE ReplaceAllFrom(_, _, _, _)
ReplaceAllFrom(s, i, pat, rep) ==
    IF i > Len(s) THEN <<>>
    ELSE IF StartsWithAt(s, i, pat)
         THEN ExpandReplacement(rep, pat, SubSeq(s, 1, i - 1), Drop(s, i + Len(pat) - 1))
              \o ReplaceAllFrom(s, i + Len(pat), pat, rep)
         ELSE <<s[i]>> \o ReplaceAllFrom(s, i + 1, pat, rep)

ReplaceAll(s, pat, rep) == ReplaceAllFrom(s, 1, pat, rep)

\* githubUsername || 'your-username'
UsernameOrFallback(githubUsername) ==
    IF githubUsername # <<>> THEN githubUsername ELSE YourUsername

\* the name the README's ExtensionName token is replaced by
ReadmeExtensionName(name) == name

\* the two replace() calls in a chain: the second works on the string the first returned
ReadmeContent(tpl, githubUsername, name) ==
    CHOOSE second \in
        {ReplaceAll(first, ExtensionNameToken, ReadmeExtensionName(name)) :
            first \in {ReplaceAll(tpl, UsernameToken, UsernameOrFallback(githubUsername))}} :
        TRUE

-----------------------------------------------------------------------------
(* Manifest and JSON *)

Str(v) == [t |-> "string", v |-> v]
Num(v) == [t |-> "number", v |-> v]

\* email ? `${author} <${email}>` : author
AuthorField(b) == IF b.email # "" THEN b.author \o " <" \o b.email \o ">" ELSE b.author

\* `https://github.com/${githubUsername}/${name}`
Homepage(b) == GithubUrl \o b.githubUsername \o <<"/">> \o b.name

\* the homepage always written
HomepageSpread_always(b) == << <<"homepage", Str(Homepage(b))>> >>

\* ...(githubUsername && { homepage })
HomepageSpread(b) ==
    IF b.githubUsername # <<>> THEN << <<"homepage", Str(Homepage(b))>> >> ELSE <<>>

\* the manifest object literal: its properties in insertion order
Manifest(b) ==
    << <<"display_name", Str(b.display_name)>>,
       <<"version", Str("1.0.0")>>,
       <<"description", Str("A new extension")>>,
       <<"author", Str(AuthorField(b))>>,
       <<"license", Str("AGPL-3.0")>>,
       <<"loading_order", Num(10)>> >> \o HomepageSpread(b)

\* a JSON literal: a string between quotes, a number bare
JSONliteral(val) == IF val.t = "string" THEN <<"\"", val.v, "\"">> ELSE <<val.v>>

JSONvalue(lit) == IF Len(lit) = 3 THEN Str(lit[2]) ELSE Num(lit[1])

\* JSON.stringify(obj, null, 2): one member per property, in order
JSONstringify(obj) ==
    [i \in 1..Len(obj) |-> [key |-> obj[i][1], json |-> JSONliteral(obj[i][2])]]

\* JSON.parse(text): the last member of a key wins
JSONparse(text) ==
    [k \in {text[i].key : i \in DOMAIN text} |->
        LET last == CHOOSE i \in DOMAIN text :
                        /\ text[i].key = k
                        /\ \A j \in DOMAIN text : text[j].key = k => j <= i
        IN JSONvalue(text[last].json)]

-----------------------------------------------------------------------------
(* Requests *)

CreateReq(admin, name, display_name, author, email, githubUsername) ==
    [kind |-> "create", admin |-> admin, name |-> name, display_name |-> display_name,
     author |-> author, email |-> email, githubUsername |-> githubUsername,
     editor |-> Undefined, extensionName |-> <<>>]

OpenReq(admin, editor, extensionName) ==
    [kind |-> "open", admin |-> admin, name |-> <<>>, display_name |-> "",
     author |-> "", email |-> "", githubUsername |-> <<>>,
     editor |-> editor, extensionName |-> extensionName]

NoReq == [kind |-> "none", admin |-> FALSE, name |-> <<>>, display_name |-> "",
          author |-> "", email |-> "", githubUsername |-> <<>>,
          editor |-> Undefined, extensionName |-> <<>>]

nFooBar == <<"F","o","o","B","a","r">>
nFooSpaceBar == <<"F","o","o"," ","B","a","r","!">>
nBangs == <<"!","!">>
nMyExt == <<"m","y",".","e","x","t">>
nLongRepo == Rep("x", GITHUB_REPO_MAX_LENGTH + 1)
nOld == <<"O","l","d">>

uOcto == <<"o","c","t","o">>
uBadChars == <<"o","c"," ","t">>
uMaxLength == Rep("a", GITHUB_USERNAME_MAX_LENGTH)
uTooLong == Rep("a", GITHUB_USERNAME_MAX_LENGTH + 1)

CreateBodies ==
    { CreateReq(TRUE, nFooBar, "Foo", "A", "", <<>>),
      CreateReq(TRUE, nFooSpaceBar, "Foo2", "A", "a@x", <<>>),
      CreateReq(TRUE, nMyExt, "Ext", "A", "", uOcto),
      CreateReq(TRUE, nBangs, "Foo", "A", "", <<>>),
      CreateReq(TRUE, nFooBar, "Foo", "A", "", uMaxLength),
      CreateReq(TRUE, nFooBar, "Foo", "A", "", uTooLong),
      CreateReq(FALSE, nFooBar, "Foo", "A", "", uTooLong),
      CreateReq(TRUE, nFooBar, "", "A", "", uTooLong),
      CreateReq(FALSE, nFooBar, "Foo", "A", "", <<>>),
      CreateReq(TRUE, nFooBar, "", "A", "", <<>>),
      CreateReq(TRUE, nFooBar, "Foo", "", "", <<>>),
      CreateReq(TRUE, <<>>, "Foo", "A", "", <<>>),
      CreateReq(TRUE, nFooSpaceBar, "Foo", "A", "", uOcto),
      CreateReq(TRUE, nFooBar, "Foo", "A", "", uBadChars),
      CreateReq(TRUE, nLongRepo, "Foo", "A", "", uOcto) }

OpenBodies ==
    { OpenReq(TRUE, "code", nFooBar),
      OpenReq(TRUE, Undefined, nFooBar),
      OpenReq(TRUE, "code", nOld),
      OpenReq(TRUE, "code", dDotGit),
      OpenReq(TRUE, "vim", nFooBar),
      OpenReq(TRUE, "code", <<>>),
      OpenReq(FALSE, "code", nFooBar) }

-----------------------------------------------------------------------------
(* README templates *)

tHeaderAndLink ==
    ExtensionNameToken \o <<" ">> \o UsernameToken \o <<"/">> \o ExtensionNameToken
tNoToken == <<"h","e","l","l","o">>
tTwoUsers == UsernameToken \o UsernameToken \o <<"!">>
tPartial == <<"u","s","e","r","n","a","m">> \o <<" ">> \o <<"E","x","t","e","n","s","i","o","n">>

Templates == {tHeaderAndLink, tNoToken, tTwoUsers, tPartial}

\* skeletons/README.md, read at every /create
SkeletonReadme == tHeaderAndLink

-----------------------------------------------------------------------------
(* Initial states *)

NoBody == [kind |-> "none"]

EmptyDisk == [d \in {} |-> NoFiles]
DiskWithOld == [d \in {ROOT, nOld} |-> NoFiles]

InitProg ==
    /\ fs \in {EmptyDisk, DiskWithOld}
    /\ git = [d \in {} |-> 0]
    /\ pc = [r \in Reqs |-> "idle"]
    /\ req = [r \in Reqs |-> NoReq]
    /\ status = [r \in Reqs |-> 0]
    /\ body = [r \in Reqs |-> NoBody]
    /\ launched = {}
    /\ mkdirLog = {}
    /\ faults = 0

InitFn ==
    /\ template = SkeletonReadme
    /\ fnIn = NoReq
    /\ fnOut = <<>>
    /\ fnDone = FALSE

Init == InitProg /\ InitFn

-----------------------------------------------------------------------------
(* Handlers *)

\* requests are received in the order of their numbers
Received(r) == pc[r] = "idle" /\ \A q \in Reqs : q < r => pc[q] # "idle"

Leaf(r) == ExtensionPath(req[r].name)

Send(r, code, b) ==
    /\ status' = [status EXCEPT ![r] = code]
    /\ body' = [body EXCEPT ![r] = b]
    /\ pc' = [pc EXCEPT ![r] = "done"]

Goto(r, next) ==
    /\ pc' = [pc EXCEPT ![r] = next]
    /\ UNCHANGED <<status, body, faults>>

ErrorBody(msg) == [kind |-> "error", error |-> msg]
TextBody(msg) == [kind |-> "text", text |-> msg]

\* a catch block that answers 500 and lets the handler go on
Catch_goesOn(r, msg) ==
    /\ faults < MaxFaults
    /\ faults' = faults + 1
    /\ status' = [status EXCEPT ![r] = 500]
    /\ body' = [body EXCEPT ![r] = ErrorBody(msg)]
    /\ UNCHANGED pc

\* an awaited operation fails: the catch block answers 500
Catch(r, msg) ==
    /\ faults < MaxFaults
    /\ faults' = faults + 1
    /\ Send(r, 500, ErrorBody(msg))

\* a catch block that removes the directory
FsAfterFailure_rollback(f, leaf) == [d \in DOMAIN f \ {leaf} |-> f[d]]

\* the catch block of routeExtensionCreate leaves the disk as the failed step left it
FsAfterFailure(f, leaf) == f

CatchCreate(r) ==
    /\ Catch(r, "Failed to create extension")
    /\ fs' = FsAfterFailure(fs, Leaf(r))

\* the collision check moved before the validation of the body
CreateGate_collisionFirst(b, f) ==
    IF ~IsAdmin(b) THEN 403
    ELSE IF b.name # <<>> /\ PathExists(f, ExtensionPath(b.name)) THEN 409
    ELSE IF ~RequiredFieldsPresent(b) THEN 400
    ELSE IF ~GithubCoordinatesValid(b) THEN 400
    ELSE 0

\* The gates of routeExtensionCreate: the status they answer, 0 when they all pass
CreateGate(b, f) ==
    IF ~IsAdmin(b) THEN 403
    ELSE IF ~RequiredFieldsPresent(b) THEN 400
    ELSE IF ~GithubCoordinatesValid(b) THEN 400
    ELSE IF PathExists(f, ExtensionPath(b.name)) THEN 409
    ELSE 0

\* mkdirSync moved before the validation of the body
CreatesDirectory_beforeValidation(b, f, ioOk) ==
    /\ IsAdmin(b)
    /\ b.name # <<>>
    /\ MkdirPossible(f, ExtensionPath(b.name))
    /\ ioOk

\* whether the synchronous part of routeExtensionCreate reaches mkdirSync and it succeeds
CreatesDirectory(b, f, ioOk) ==
    /\ CreateGate(b, f) = 0
    /\ MkdirPossible(f, ExtensionPath(b.name))
    /\ ioOk

\* POST /create, from the admin check to the first await
routeExtensionCreate(r) ==
    /\ Received(r)
    /\ \E b \in CreateBodies, ioOk \in BOOLEAN :
        LET leaf == ExtensionPath(b.name)
            gate == CreateGate(b, fs)
        IN  /\ req' = [req EXCEPT ![r] = b]
            /\ IF CreatesDirectory(b, fs, ioOk)
               THEN /\ fs' = Mkdir(fs, leaf)
                    /\ mkdirLog' = mkdirLog \cup {leaf}
                    /\ IF gate = 0
                       THEN Goto(r, "copyIndex")
                       ELSE /\ Send(r, gate, TextBody("rejected"))
                            /\ UNCHANGED faults
               ELSE /\ UNCHANGED <<fs, mkdirLog>>
                    /\ IF gate # 0
                       THEN /\ Send(r, gate, TextBody("rejected"))
                            /\ UNCHANGED faults
                       ELSE /\ (MkdirPossible(fs, leaf) /\ ~ioOk) => faults < MaxFaults
                            /\ faults' = IF MkdirPossible(fs, leaf) /\ ~ioOk
                                          THEN faults + 1 ELSE faults
                            /\ Send(r, 500, ErrorBody("Failed to create extension"))
    /\ UNCHANGED <<git, launched, fnVars>>

\* await fs.promises.copyFile(skeletons/index.js, extensionPath/index.js)
CopyIndexJs(r) ==
    /\ pc[r] = "copyIndex"
    /\ \/ /\ fs' = WriteFile(fs, Leaf(r), fIndexJs, "skeletons/index.js")
          /\ Goto(r, "copyLicense")
       \/ CatchCreate(r)
    /\ UNCHANGED <<git, req, launched, mkdirLog, fnVars>>

\* await fs.promises.copyFile(skeletons/LICENSE, extensionPath/LICENSE)
CopyLicense(r) ==
    /\ pc[r] = "copyLicense"
    /\ \/ /\ fs' = WriteFile(fs, Leaf(r), fLicense, "skeletons/LICENSE")
          /\ Goto(r, "readReadme")
       \/ CatchCreate(r)
    /\ UNCHANGED <<git, req, launched, mkdirLog, fnVars>>

\* await fs.promises.readFile(skeletons/README.md)
ReadReadme(r) ==
    /\ pc[r] = "readReadme"
    /\ \/ Goto(r, "writeReadme") /\ UNCHANGED fs
       \/ CatchCreate(r)
    /\ UNCHANGED <<git, req, launched, mkdirLog, fnVars>>

\* the two replace() calls and await fs.promises.writeFile(extensionPath/README.md)
WriteReadme(r) ==
    /\ pc[r] = "writeReadme"
    /\ \/ /\ Goto(r, "writeManifest")
          /\ fs' = WriteFile(fs, Leaf(r), fReadme,
                             ReadmeContent(template, req[r].githubUsername, req[r].name))
       \/ CatchCreate(r)
    /\ UNCHANGED <<git, req, launched, mkdirLog, fnVars>>

\* the manifest object and await fs.promises.writeFile(extensionPath/manifest.json)
WriteManifest(r) ==
    /\ pc[r] = "writeManifest"
    /\ \/ /\ fs' = WriteFile(fs, Leaf(r), fManifest, JSONstringify(Manifest(req[r])))
          /\ Goto(r, "gitInit")
       \/ CatchCreate(r)
    /\ UNCHANGED <<git, req, launched, mkdirLog, fnVars>>

NewRepo == [userName |-> "", userEmail |-> "", staged |-> {}, commits |-> <<>>]

\* git.cwd(extensionPath).init()
GitInit(r) ==
    /\ pc[r] = "gitInit"
    /\ \/ /\ git' = [d \in DOMAIN git \cup {Leaf(r)} |->
                        IF d \in DOMAIN git THEN git[d] ELSE NewRepo]
          /\ Goto(r, "gitUserName")
          /\ UNCHANGED fs
       \/ /\ CatchCreate(r)
          /\ UNCHANGED git
    /\ UNCHANGED <<req, launched, mkdirLog, fnVars>>

\* .addConfig('user.name', author)
GitConfigName(r) ==
    /\ pc[r] = "gitUserName"
    /\ \/ /\ git' = [git EXCEPT ![Leaf(r)].userName = req[r].author]
          /\ Goto(r, "gitUserEmail")
          /\ UNCHANGED fs
       \/ /\ CatchCreate(r)
          /\ UNCHANGED git
    /\ UNCHANGED <<req, launched, mkdirLog, fnVars>>

\* email || `${author}@localhost`
CommitEmail(b) == IF b.email # "" THEN b.email ELSE b.author \o "@localhost"

\* .addConfig('user.email', email || `${author}@localhost`)
GitConfigEmail(r) ==
    /\ pc[r] = "gitUserEmail"
    /\ \/ /\ git' = [git EXCEPT ![Leaf(r)].userEmail = CommitEmail(req[r])]
          /\ Goto(r, "gitAdd")
          /\ UNCHANGED fs
       \/ /\ CatchCreate(r)
          /\ UNCHANGED git
    /\ UNCHANGED <<req, launched, mkdirLog, fnVars>>

\* the directories below a directory: the extensions when it is the root, none otherwise
Subdirectories(f, leaf) == IF leaf = ROOT THEN {d \in DOMAIN f : d # ROOT} ELSE {}

\* a directory below holds a repository without a commit: git add reports
\* that it has no commit checked out (older versions pass it over)
NestedRepoWithoutCommit(f, g, leaf) ==
    \E d \in Subdirectories(f, leaf) : d \in DOMAIN g /\ g[d].commits = <<>>

\* the stage-all run before the manifest is written
StagedByAddAll_beforeManifest(f, g, leaf) == DOMAIN f[leaf] \ {fManifest}

\* what git add . stages in a directory: its files, the files of the
\* directories below it, and a directory with a repository of its own as one entry
StagedByAddAll(f, g, leaf) ==
    DOMAIN f[leaf]
        \cup UNION {{d \o <<"/">> \o n : n \in DOMAIN f[d]} :
                        d \in Subdirectories(f, leaf) \ DOMAIN g}
        \cup {d \in Subdirectories(f, leaf) \cap DOMAIN g : g[d].commits # <<>>}

\* .add('.')
GitAdd(r) ==
    /\ pc[r] = "gitAdd"
    /\ \/ /\ git' = [git EXCEPT ![Leaf(r)].staged = StagedByAddAll(fs, git, Leaf(r))]
          /\ Goto(r, "gitCommit")
          /\ UNCHANGED fs
       \/ /\ NestedRepoWithoutCommit(fs, git, Leaf(r))
          /\ Send(r, 500, ErrorBody("Failed to create extension"))
          /\ fs' = FsAfterFailure(fs, Leaf(r))
          /\ UNCHANGED <<git, faults>>
       \/ /\ CatchCreate(r)
          /\ UNCHANGED git
    /\ UNCHANGED <<req, launched, mkdirLog, fnVars>>

\* .commit('Initial commit')
GitCommit(r) ==
    /\ pc[r] = "gitCommit"
    /\ \/ /\ git' = [git EXCEPT ![Leaf(r)].commits = Append(@, git[Leaf(r)].staged)]
          /\ Goto(r, "reread")
          /\ UNCHANGED fs
       \/ /\ CatchCreate(r)
          /\ UNCHANGED git
    /\ UNCHANGED <<req, launched, mkdirLog, fnVars>>

\* the response built without the optional member
ManifestData_withoutHomepage(f, leaf) ==
    LET m == JSONparse(f[leaf][fManifest])
    IN  [k \in DOMAIN m \ {"homepage"} |-> m[k]]

\* JSON.parse(fs.readFileSync(extensionPath/manifest.json))
ManifestData(f, leaf) == JSONparse(f[leaf][fManifest])

CreatedBody(leaf, data) == [kind |-> "created", path |-> leaf, manifestData |-> data]

\* the re-read of manifest.json and res.json({ path, manifestData })
RereadAndRespond(r) ==
    /\ pc[r] = "reread"
    /\ \/ /\ fManifest \in DOMAIN fs[Leaf(r)]
          /\ Send(r, 200, CreatedBody(Leaf(r), ManifestData(fs, Leaf(r))))
          /\ UNCHANGED <<fs, faults>>
       \/ CatchCreate(r)
    /\ UNCHANGED <<git, req, launched, mkdirLog, fnVars>>

\* const { editor = 'webstorm', extensionName } = req.body
EditorOf(b) == IF b.editor = Undefined THEN "webstorm" ELSE b.editor

\* The gates of routeExtensionOpen: the status they answer, 0 when they all pass;
\* readdirSync throws when the extensions root is missing, and the catch block answers 500
OpenGate(b, f, g) ==
    IF ~IsAdmin(b) THEN 403
    ELSE IF b.extensionName = <<>> THEN 400
    ELSE IF EditorOf(b) \notin ALLOWED_EDITORS THEN 400
    ELSE IF ROOT \notin DOMAIN f THEN 500
    ELSE IF b.extensionName \notin GlobalExtensions(f, g) THEN 404
    ELSE IF ~IndexJsExists(f, b.extensionName) THEN 404
    ELSE 0

\* POST /open, from the admin check to the call of exec
routeExtensionOpen(r) ==
    /\ Received(r)
    /\ \E b \in OpenBodies :
        LET gate == OpenGate(b, fs, git)
        IN  /\ req' = [req EXCEPT ![r] = b]
            /\ IF gate = 0
               THEN /\ launched' = launched \cup {r}
                    /\ Goto(r, "exec")
               ELSE /\ UNCHANGED <<launched, faults>>
                    /\ Send(r, gate, IF gate = 500 THEN ErrorBody("Failed to execute command")
                                                   ELSE TextBody("rejected"))
    /\ UNCHANGED <<fs, git, mkdirLog, fnVars>>

\* await execAsync(`${editor} "${extensionPath}"`) and res.sendStatus(200)
ExecDone(r) ==
    /\ pc[r] = "exec"
    /\ \/ /\ Send(r, 200, TextBody("OK"))
          /\ UNCHANGED faults
       \/ Catch(r, "Failed to execute command")
    /\ UNCHANGED <<fs, git, req, launched, mkdirLog, fnVars>>

Next ==
    \E r \in Reqs :
        \/ routeExtensionCreate(r)
        \/ CopyIndexJs(r)
        \/ CopyLicense(r)
        \/ ReadReadme(r)
        \/ WriteReadme(r)
        \/ WriteManifest(r)
        \/ GitInit(r)
        \/ GitConfigName(r)
        \/ GitConfigEmail(r)
        \/ GitAdd(r)
        \/ GitCommit(r)
        \/ RereadAndRespond(r)
        \/ routeExtensionOpen(r)
        \/ ExecDone(r)

Spec == Init /\ [][Next]_vars

\* the awaited operations of a /create: each returns, and the handler goes on
Continue(r) ==
    \/ CopyIndexJs(r)
    \/ CopyLicense(r)
    \/ ReadReadme(r)
    \/ WriteReadme(r)
    \/ WriteManifest(r)
    \/ GitInit(r)
    \/ GitConfigName(r)
    \/ GitConfigEmail(r)
    \/ GitAdd(r)
    \/ GitCommit(r)
    \/ RereadAndRespond(r)

\* the plugin when every filesystem and git operation of a /create returns
SpecReturning == Spec /\ \A r \in Reqs : WF_vars(Continue(r))

-----------------------------------------------------------------------------
(* The sanitizer alone, on every name of up to MaxNameLen characters *)

SanAlphabet == {"a", "Z", "7", "-", "_", ".", " ", "/", "$"}

NamesUpTo(n) == UNION {[1..k -> SanAlphabet] : k \in 0..n}

Quiet == InitProg /\ fs = EmptyDisk

InitSanitizer ==
    /\ Quiet
    /\ template = SkeletonReadme
    /\ fnIn \in NamesUpTo(MaxNameLen)
    /\ fnOut = <<>>
    /\ fnDone = FALSE

ApplySanitizer ==
    /\ ~fnDone
    /\ fnOut' = SanitizeName(fnIn)
    /\ fnDone' = TRUE
    /\ UNCHANGED <<template, fnIn, progVars>>

NextSanitizer == ApplySanitizer

SpecSanitizer == InitSanitizer /\ [][NextSanitizer]_vars

-----------------------------------------------------------------------------
(* The README substitution alone, on accepted request bodies *)

nDollarAmp == <<"a","$","&","b">>
nDollarDollar == <<"c","$","$">>
nTick == <<"$","`","$","'">>
nUser == UsernameToken
uExtensionName == ExtensionNameToken
uEn == <<"e","n">>

tSplitToken == <<"E","x","t">> \o UsernameToken \o <<"s","i","o","n","N","a","m","e">>

ReadmeNames == {nFooBar, nFooSpaceBar, nMyExt, nBangs, nDollarAmp, nDollarDollar, nTick, nUser}
ReadmeUsers == {<<>>, uOcto, uExtensionName, uEn, uBadChars}
ReadmeTemplates == Templates \cup {tSplitToken}

ReadmeBodies ==
    {CreateReq(TRUE, n, "Foo", "A", "", u) : n \in ReadmeNames, u \in ReadmeUsers}

InitReadme ==
    /\ Quiet
    /\ template \in ReadmeTemplates
    /\ fnIn \in ReadmeBodies
    /\ fnOut = <<>>
    /\ fnDone = FALSE

\* the README of a request that passed the gates
ApplyReadme ==
    /\ ~fnDone
    /\ CreateGate(fnIn, fs) = 0
    /\ fnOut' = ReadmeContent(template, fnIn.githubUsername, fnIn.name)
    /\ fnDone' = TRUE
    /\ UNCHANGED <<template, fnIn, progVars>>

NextReadme == ApplyReadme

SpecReadme == InitReadme /\ [][NextReadme]_vars

-----------------------------------------------------------------------------
(* Properties *)

IsLeafChar(c) == c \in Lower \cup Upper \cup Digit \cup {"-", "_"}

\* the allowed characters of a name, in their order
SanitizedLeaf(name) == SelectSeq(name, IsLeafChar)

\* request r is handled in this step, as a /create or as an /open
Handled(r, kind) == pc[r] = "idle" /\ pc'[r] # "idle" /\ req'[r].kind = kind

BodyValid(b) ==
    /\ b.name # <<>> /\ b.display_name # "" /\ b.author # ""
    /\ b.githubUsername # <<>> =>
        /\ GITHUB_NAME_REGEX(b.githubUsername) /\ Len(b.githubUsername) <= 39
        /\ GITHUB_NAME_REGEX(b.name) /\ Len(b.name) <= 100

\* C1: a /create that is answered 403 or 400 leaves the disk exactly as it
\* was: no directory, no file and no repository is created by it.
C1_RejectedCreateLeavesDiskUntouched ==
    [][\A r \in Reqs :
         (Handled(r, "create") /\ status'[r] \in {400, 403})
            => (fs' = fs /\ git' = git /\ mkdirLog' = mkdirLog)]_vars

\* a /create rejected for its too long username, after another one made a directory
C1_Witness ==
    \E r \in Reqs :
        /\ req[r].kind = "create" /\ status[r] = 400
        /\ req[r].admin /\ req[r].display_name # "" /\ Len(req[r].githubUsername) > 39
        /\ mkdirLog # {}

\* C2 as stated: once a directory exists at the sanitized path, every later
\* /create with that sanitized name is answered 409 and changes nothing.
C2_EveryLaterCreateIs409 ==
    [][\A r \in Reqs :
         (/\ Handled(r, "create")
          /\ SanitizedLeaf(req'[r].name) # ROOT
          /\ SanitizedLeaf(req'[r].name) \in DOMAIN fs)
            => (status'[r] = 409 /\ fs' = fs)]_vars

\* C2 amended: once a directory exists at the sanitized path, a later /create
\* with that sanitized name changes nothing on disk, and it is answered 409
\* exactly when the caller is an admin and the body is valid (403 for another
\* caller, 400 for an invalid body).
C2_CollisionChangesNothing ==
    [][\A r \in Reqs :
         (/\ Handled(r, "create")
          /\ SanitizedLeaf(req'[r].name) \in DOMAIN fs)
            => /\ fs' = fs /\ git' = git /\ mkdirLog' = mkdirLog
               /\ status'[r] = IF ~req'[r].admin THEN 403
                               ELSE IF ~BodyValid(req'[r]) THEN 400
                               ELSE 409]_vars

\* 200 then 409 for two raw names that differ only in stripped characters
C2_Witness ==
    \E r1, r2 \in Reqs :
        /\ r1 < r2
        /\ req[r1].kind = "create" /\ req[r2].kind = "create"
        /\ req[r1].name # req[r2].name
        /\ SanitizedLeaf(req[r1].name) = SanitizedLeaf(req[r2].name)
        /\ status[r1] = 200 /\ status[r2] = 409

\* C3 as stated: a /create with a username of more than 39 characters is
\* answered 400, whoever the caller is.
C3_LongUsernameIs400 ==
    \A r \in Reqs :
        (req[r].kind = "create" /\ Len(req[r].githubUsername) > 39) => status[r] = 400

\* C3 amended: a /create with a username of more than 39 characters creates
\* no directory; it is answered 400 when the caller is an admin, and 403 when
\* not, whatever the other fields and the disk are.
C3_LongUsernameCreatesNothing ==
    [][\A r \in Reqs :
         (Handled(r, "create") /\ Len(req'[r].githubUsername) > 39)
            => /\ status'[r] = IF req'[r].admin THEN 400 ELSE 403
               /\ fs' = fs /\ mkdirLog' = mkdirLog]_vars

\* an admin's /create with a 40 character username is answered 400 while the
\* directory of that name does not exist
C3_Witness ==
    \E r \in Reqs :
        /\ req[r].kind = "create" /\ req[r].admin /\ status[r] = 400
        /\ req[r].display_name # ""
        /\ Len(req[r].githubUsername) = 40
        /\ ROOT \in DOMAIN fs
        /\ SanitizedLeaf(req[r].name) \notin DOMAIN fs

\* C4: after a /create answered 200, manifest.json in the directory the
\* response names holds the members of the response's manifestData, no more
\* and no fewer, with the same values.
C4_ManifestRoundTrip ==
    \A r \in Reqs :
        (req[r].kind = "create" /\ status[r] = 200) =>
            LET text == fs[body[r].path][fManifest]
                data == body[r].manifestData
            IN  /\ DOMAIN data = {text[i].key : i \in DOMAIN text}
                /\ \A i \in DOMAIN text : JSONliteral(data[text[i].key]) = text[i].json

\* a /create with a homepage answered 200 while an earlier /create is still running
C4_Witness ==
    \E r1, r2 \in Reqs :
        /\ r1 < r2
        /\ req[r1].kind = "create" /\ pc[r1] = "gitAdd"
        /\ req[r2].kind = "create" /\ status[r2] = 200
        /\ "homepage" \in DOMAIN body[r2].manifestData

\* C5 as stated: an /open that does not launch the editor is answered 403,
\* 400 or 404.
C5_NoLaunchIs403or400or404 ==
    \A r \in Reqs :
        (req[r].kind = "open" /\ pc[r] = "done" /\ r \notin launched)
            => status[r] \in {403, 400, 404}

\* C5 amended: /open launches the editor only when the caller is an admin,
\* extensionName is present, the editor is in the allow-list, extensionName is
\* a directory directly under the root and index.js exists in it, all at the
\* moment of the launch.  Otherwise nothing is launched and the answer is 403,
\* 400 or 404, or 500 when the extensions root itself is missing.
C5_LaunchOnlyWhenChecked ==
    [][\A r \in Reqs :
         Handled(r, "open") =>
            LET b == req'[r]
                editor == IF b.editor = Undefined THEN "webstorm" ELSE b.editor
            IN  IF r \in launched'
                THEN /\ b.admin
                     /\ b.extensionName # <<>>
                     /\ editor \in ALLOWED_EDITORS
                     /\ b.extensionName # ROOT /\ b.extensionName \in DOMAIN fs
                     /\ fIndexJs \in DOMAIN fs[b.extensionName]
                ELSE /\ launched' = launched
                     /\ status'[r] \in {403, 400, 404, 500}
                     /\ status'[r] = 500 => ROOT \notin DOMAIN fs]_vars

\* the editor is launched on an extension whose /create is still running
C5_Witness ==
    \E r1, r2 \in Reqs :
        /\ req[r1].kind = "create" /\ pc[r1] \notin {"idle", "done"}
        /\ req[r2].kind = "open" /\ r2 \in launched
        /\ req[r2].extensionName = SanitizedLeaf(req[r1].name)

\* C6: the sanitizer returns, for every name, the subsequence of its allowed
\* characters (letters, digits, hyphen, underscore) in their order, and it is
\* defined on every name.
C6_SanitizerKeepsAllowedCharacters ==
    /\ ~fnDone => ENABLED ApplySanitizer
    /\ fnDone =>
        /\ \A i \in 1..Len(fnOut) : IsLeafChar(fnOut[i])
        /\ fnOut = SanitizedLeaf(fnIn)

\* a name with allowed and stripped characters, underscore among the allowed
C6_Witness ==
    /\ fnDone
    /\ 0 < Len(fnOut) /\ Len(fnOut) < Len(fnIn)
    /\ \E i \in 1..Len(fnOut) : fnOut[i] = "_"

\* C7: every directory that /create makes is a direct child of the extensions
\* root: its leaf is not empty and holds only letters, digits, hyphens and
\* underscores.
C7_CreatedDirectoryHasSafeLeaf ==
    \A d \in mkdirLog : d # ROOT /\ \A i \in 1..Len(d) : IsLeafChar(d[i])

NothingRemoved ==
    /\ \A d \in DOMAIN fs :
        d \in DOMAIN fs' /\ \A n \in DOMAIN fs[d] : n \in DOMAIN fs'[d]
    /\ \A d \in DOMAIN git : d \in DOMAIN git'

\* C8 as stated: after a /create answered 500, the same /create again is
\* answered 409.
C8_RetryAfterFailureIs409 ==
    \A r1, r2 \in Reqs :
        (/\ r1 < r2
         /\ req[r1].kind = "create" /\ req[r2] = req[r1]
         /\ status[r1] = 500 /\ pc[r2] = "done")
            => status[r2] = 409

\* C8 amended: no step ever removes a directory, a file or a repository, also
\* not the step that answers 500, and a /create that fails after
\* DirectoryCreate leaves its directory on disk.  A retry of a /create that
\* was answered 500 is answered 409 when the directory of that name has been
\* made (so always when Materialize, ManifestWrite, RepoInit or the re-read
\* failed); when DirectoryCreate itself failed and nothing was made, the retry
\* is not answered 409: it runs DirectoryCreate again.
C8_NoRollback ==
    [][/\ NothingRemoved
       /\ \A r1, r2 \in Reqs :
            (/\ req[r1].kind = "create" /\ status[r1] = 500
             /\ Handled(r2, "create") /\ req'[r2] = req[r1])
                => IF SanitizedLeaf(req[r1].name) \in mkdirLog
                   THEN status'[r2] = 409 /\ fs' = fs
                   ELSE /\ status'[r2] \in {0, 500}
                        /\ status'[r2] = 0 => SanitizedLeaf(req[r1].name) \in mkdirLog'
       /\ \A r \in Reqs :
            (req[r].kind = "create" /\ pc[r] \notin {"idle", "done"} /\ status'[r] = 500)
                => /\ SanitizedLeaf(req[r].name) \in mkdirLog
                   /\ SanitizedLeaf(req[r].name) \in DOMAIN fs'
      ]_vars

\* a /create failed after index.js was copied, the directory is still there
\* without its manifest, and the retry was answered 409
C8_Witness ==
    \E r1, r2 \in Reqs :
        /\ r1 < r2
        /\ req[r1].kind = "create" /\ req[r2] = req[r1]
        /\ status[r1] = 500 /\ status[r2] = 409
        /\ SanitizedLeaf(req[r1].name) \in DOMAIN fs
        /\ fIndexJs \in DOMAIN fs[SanitizedLeaf(req[r1].name)]
        /\ fManifest \notin DOMAIN fs[SanitizedLeaf(req[r1].name)]

\* request r has written its manifest.json
ManifestWritten(r) ==
    /\ req[r].kind = "create"
    /\ \/ pc[r] \in {"gitInit", "gitUserName", "gitUserEmail", "gitAdd", "gitCommit", "reread"}
       \/ status[r] = 200

\* C9: the manifest written by /create has a homepage member exactly when a
\* username was given; the username then is valid, and the value is the URL
\* made of the username and the name of the request.
C9_HomepageIffUsername ==
    \A r \in Reqs :
        ManifestWritten(r) =>
            LET text == fs[SanitizedLeaf(req[r].name)][fManifest]
                user == req[r].githubUsername
                at == {i \in DOMAIN text : text[i].key = "homepage"}
            IN  /\ at # {} <=> user # <<>>
                /\ \A i \in at :
                    /\ GITHUB_NAME_REGEX(user) /\ Len(user) <= 39
                    /\ text[i].json = <<"\"", GithubUrl \o user \o <<"/">> \o req[r].name, "\"">>

\* two manifests on disk, one with a homepage and one without
C9_Witness ==
    \E r1, r2 \in Reqs :
        /\ ManifestWritten(r1) /\ req[r1].githubUsername # <<>>
        /\ ManifestWritten(r2) /\ req[r2].githubUsername = <<>>

\* the template with its tokens replaced in one pass, the replacements taken literally
RECURSIVE SubstTokens(_, _, _)
SubstTokens(t, user, ext) ==
    IF t = <<>> THEN <<>>
    ELSE IF StartsWithAt(t, 1, UsernameToken)
         THEN user \o SubstTokens(Drop(t, Len(UsernameToken)), user, ext)
    ELSE IF StartsWithAt(t, 1, ExtensionNameToken)
         THEN ext \o SubstTokens(Drop(t, Len(ExtensionNameToken)), user, ext)
    ELSE <<Head(t)>> \o SubstTokens(Tail(t), user, ext)

RECURSIVE CountToken(_, _)
CountToken(t, tok) ==
    IF t = <<>> THEN 0
    ELSE IF StartsWithAt(t, 1, tok) THEN 1 + CountToken(Drop(t, Len(tok)), tok)
    ELSE CountToken(Tail(t), tok)

UserOrYourUsername(user) ==
    IF user # <<>> THEN user ELSE <<"y","o","u","r","-","u","s","e","r","n","a","m","e">>

\* writing the username into the template makes no new ExtensionName token
FormsNoToken(t, user) ==
    CountToken(SubstTokens(t, user, ExtensionNameToken), ExtensionNameToken)
        = CountToken(t, ExtensionNameToken)

NoDollar(name) == \A i \in 1..Len(name) : name[i] # "$"

\* C10 as stated: the README is the template with the username token replaced
\* by the username or the fallback, and the ExtensionName token replaced by
\* the sanitized name, the leaf of the directory.
C10_ReadmeNamesTheLeaf ==
    fnDone =>
        fnOut = SubstTokens(template, UserOrYourUsername(fnIn.githubUsername),
                            SanitizedLeaf(fnIn.name))

\* What the two replace() calls do write: the ExtensionName token becomes the
\* name as the request gave it, not sanitized; this for every accepted name
\* without "$" (a replacement pattern of replace()) and every username whose
\* insertion makes no new ExtensionName token.
ReadmeNamesTheRawName ==
    (fnDone /\ NoDollar(fnIn.name)
            /\ FormsNoToken(template, UserOrYourUsername(fnIn.githubUsername))) =>
        fnOut = SubstTokens(template, UserOrYourUsername(fnIn.githubUsername), fnIn.name)

\* a README for a name that loses characters when sanitized, without a username
ReadmeOfStrippedName ==
    /\ fnDone
    /\ template = tHeaderAndLink
    /\ fnIn.githubUsername = <<>>
    /\ SanitizedLeaf(fnIn.name) # fnIn.name
    /\ NoDollar(fnIn.name)
    /\ fnOut = fnIn.name \o <<" ">> \o YourUsername \o <<"/">> \o fnIn.name

\* b is a /create of a privileged caller with a valid body
ValidCreate(b) == b.kind = "create" /\ b.admin /\ BodyValid(b)

\* request r has made its directory and not failed since
PastMkdir(r) ==
    /\ req[r].kind = "create"
    /\ pc[r] \notin {"idle", "done"} \/ status[r] = 200

\* C11: of the /create requests with the same sanitized name, one makes the
\* directory.  A request gets past the creation of the directory only when
\* no other request with its sanitized name is past it, running or answered
\* 200: never do two of them make the directory, never are two answered 200.
\* When both callers are privileged and both bodies valid, the request
\* handled while the other is running, or after the directory was made, is
\* answered 409 or 500 and changes nothing.
C11_SameNameRaceHasOneWinner ==
    [][\A r2 \in Reqs :
         Handled(r2, "create") =>
            \A r1 \in Reqs \ {r2} :
                (/\ req[r1].kind = "create"
                 /\ PastMkdir(r1) \/ mkdirLog # {}
                 /\ SanitizedLeaf(req[r1].name) = SanitizedLeaf(req'[r2].name))
                    => /\ PastMkdir(r1) =>
                            /\ ~PastMkdir(r2)' /\ status'[r2] # 200
                            /\ fs' = fs /\ mkdirLog' = mkdirLog
                       /\ (/\ PastMkdir(r1) \/ SanitizedLeaf(req[r1].name) \in mkdirLog
                           /\ ValidCreate(req[r1]) /\ ValidCreate(req'[r2]))
                            => /\ SanitizedLeaf(req[r1].name) \in DOMAIN fs
                               /\ status'[r2] \in {409, 500}
                               /\ fs' = fs /\ git' = git /\ mkdirLog' = mkdirLog
      ]_vars

\* the second of two such requests was answered 409 while the first, which
\* made the directory, is about to commit
C11_Witness ==
    \E r1, r2 \in Reqs :
        /\ r1 < r2
        /\ ValidCreate(req[r1]) /\ ValidCreate(req[r2])
        /\ SanitizedLeaf(req[r1].name) = SanitizedLeaf(req[r2].name)
        /\ pc[r1] = "gitCommit"
        /\ status[r2] = 409

\* in this code the loser of the race is always answered 409: existsSync and
\* mkdirSync run without an await between them
RaceLoserIs409 ==
    [][\A r1, r2 \in Reqs :
         (/\ r1 # r2
          /\ Handled(r2, "create") /\ pc[r1] \notin {"idle", "done"}
          /\ ValidCreate(req[r1]) /\ ValidCreate(req'[r2])
          /\ SanitizedLeaf(req[r1].name) = SanitizedLeaf(req'[r2].name))
            => status'[r2] = 409]_vars

\* the positions of a /create after its gates, in the order of the pipeline:
\* Materialize (four), ManifestWrite, RepoInit (five), ManifestReread
PipelineOrder ==
    <<"copyIndex", "copyLicense", "readReadme", "writeReadme", "writeManifest",
      "gitInit", "gitUserName", "gitUserEmail", "gitAdd", "gitCommit", "reread">>

PipelineIndex(p) == CHOOSE i \in 1..Len(PipelineOrder) : PipelineOrder[i] = p

\* C12: /create is decided by the first gate that fails, in the order
\* AuthCheck, InputValidate, CollisionCheck: a caller who is not an admin is
\* answered 403 whatever the body and the disk; an admin with an invalid body
\* is answered 400 also when the directory exists; 409 is answered only to an
\* admin with a valid body; no gate that fails changes the disk.  Past the
\* gates the request has made its directory and takes the mutation steps one
\* by one in the fixed order, and 200 is answered only by the last of them.
C12_FirstFailingGateDecides ==
    [][\A r \in Reqs :
         /\ Handled(r, "create") =>
              \A b \in {req'[r]} : \A valid \in {BodyValid(b)} :
                  /\ ~b.admin => status'[r] = 403
                  /\ (b.admin /\ ~valid) => status'[r] = 400
                  /\ status'[r] = 409 => (b.admin /\ valid)
                  /\ status'[r] \in {403, 400, 409} => (fs' = fs /\ mkdirLog' = mkdirLog)
                  /\ status'[r] # 200
                  /\ pc'[r] # "done" =>
                        /\ b.admin /\ valid
                        /\ SanitizedLeaf(b.name) \notin DOMAIN fs
                        /\ SanitizedLeaf(b.name) \in DOMAIN fs'
                        /\ pc'[r] = PipelineOrder[1]
         /\ (req[r].kind = "create" /\ pc[r] \notin {"idle", "done"} /\ pc'[r] # pc[r]) =>
              LET i == PipelineIndex(pc[r])
              IN  IF i < Len(PipelineOrder)
                  THEN \/ pc'[r] = PipelineOrder[i + 1] /\ status'[r] = 0
                       \/ pc'[r] = "done" /\ status'[r] = 500
                  ELSE pc'[r] = "done" /\ status'[r] \in {200, 500}
      ]_vars

\* a /create went through every step to 200, and an admin's /create of the
\* same sanitized name with an invalid body was answered 400, not 409, while
\* the directory exists
C12_Witness ==
    \E r1, r2 \in Reqs :
        /\ r1 < r2
        /\ req[r1].kind = "create" /\ status[r1] = 200
        /\ req[r2].kind = "create" /\ req[r2].admin /\ ~BodyValid(req[r2])
        /\ SanitizedLeaf(req[r2].name) = SanitizedLeaf(req[r1].name)
        /\ SanitizedLeaf(req[r2].name) \in DOMAIN fs
        /\ status[r2] = 400

FourFiles == {fManifest, fIndexJs, fLicense, fReadme}

\* C13: when /create is answered 200, its directory holds exactly the four
\* files manifest.json, index.js, LICENSE and README.md and a repository with
\* exactly one commit; the four files were all on disk before the stage-all
\* and the commit ran, the stage-all staged them and the commit covers every
\* one of them.
C13_FourFilesOneCommit ==
    \A r \in Reqs :
        LET leaf == SanitizedLeaf(req[r].name)
        IN  /\ (req[r].kind = "create" /\ pc[r] \in {"gitAdd", "gitCommit", "reread"})
                  => (leaf \in DOMAIN fs /\ FourFiles \subseteq DOMAIN fs[leaf])
            /\ (req[r].kind = "create" /\ pc[r] \in {"gitAdd", "gitCommit"})
                  => git[leaf].commits = <<>>
            /\ (req[r].kind = "create" /\ pc[r] \in {"gitCommit", "reread"})
                  => FourFiles \subseteq git[leaf].staged
            /\ (req[r].kind = "create" /\ status[r] = 200)
                  => /\ leaf \in DOMAIN fs /\ DOMAIN fs[leaf] = FourFiles
                     /\ leaf \in DOMAIN git
                     /\ Len(git[leaf].commits) = 1
                     /\ FourFiles \subseteq git[leaf].commits[1]

\* a /create was answered 200 for a directory with the four files and one
\* commit of them, while a later /create has copied only index.js so far
C13_Witness ==
    \E r1, r2 \in Reqs :
        /\ r1 < r2
        /\ req[r1].kind = "create" /\ status[r1] = 200
        /\ git[SanitizedLeaf(req[r1].name)].commits
              = << {fManifest, fIndexJs, fLicense, fReadme} >>
        /\ req[r2].kind = "create" /\ pc[r2] = "copyLicense"
        /\ DOMAIN fs[SanitizedLeaf(req[r2].name)] = {fIndexJs}

\* the commit of a scaffolded extensions root also covers a file of an
\* extension below it
RootCommitCoversMore ==
    \E r \in Reqs :
        /\ req[r].kind = "create" /\ status[r] = 200
        /\ SanitizedLeaf(req[r].name) = ROOT
        /\ git[ROOT].commits[1] # FourFiles

\* C14: every /create sends one response and ends in one terminal state,
\* Respond (200 with the path and the manifest) or Error (403, 400, 409 or
\* 500): a request has a status exactly when it is done; once done, its
\* status, its body and its position never change, and every step that
\* changes the disk or a repository is a step of a request that is not done,
\* so no step runs after a failure; and when every awaited operation returns,
\* every /create that has started ends.
C14_OneResponseThenNothing ==
    /\ [](\A r \in Reqs :
            req[r].kind = "create" =>
                /\ pc[r] # "idle"
                /\ status[r] # 0 <=> pc[r] = "done"
                /\ status[r] \in {0, 200, 400, 403, 409, 500}
                /\ status[r] = 200 <=> body[r].kind = "created"
                /\ status[r] \in {400, 403, 409, 500} <=> body[r].kind \in {"error", "text"})
    /\ [][/\ \A r \in Reqs :
               (req[r].kind = "create" /\ pc[r] = "done")
                  => /\ pc'[r] = "done" /\ req'[r] = req[r]
                     /\ status'[r] = status[r] /\ body'[r] = body[r]
          /\ (fs' # fs \/ git' # git \/ mkdirLog' # mkdirLog)
               => \E r \in Reqs : /\ pc[r] # "done" /\ pc'[r] # pc[r]
                                  /\ req'[r].kind = "create"
                                  /\ \A q \in Reqs \ {r} : pc'[q] = pc[q]
         ]_vars
    /\ \A r \in Reqs : (req[r].kind = "create") ~> (pc[r] = "done" /\ status[r] # 0)

\* one /create ended in Error after its directory and index.js were made,
\* another went on to Respond
C14_Witness ==
    \E r1, r2 \in Reqs :
        /\ req[r1].kind = "create" /\ pc[r1] = "done" /\ status[r1] = 500
        /\ body[r1].kind = "error"
        /\ SanitizedLeaf(req[r1].name) \in DOMAIN fs
        /\ DOMAIN fs[SanitizedLeaf(req[r1].name)] = {fIndexJs, fLicense}
        /\ req[r2].kind = "create" /\ pc[r2] = "done" /\ status[r2] = 200
        /\ body[r2].kind = "created"

====
